---- MODULE Spec2Model ----
(***************************************************************************)
(* Model of the Redshift provider core: the role-grant resource            *)
(* (redshift/provider.go), the role resource                               *)
(* (examples/resources/redshift_role/complete_hierarchy.tf) and the        *)
(* connection registry with its lazily computed facts (redshift/config.go).*)
(*                                                                         *)
(* Go strings are sequences of one-character strings, so that ToLower,     *)
(* ToUpper, Split and Sprintf are computed character by character.         *)
(***************************************************************************)
EXTENDS Integers, Sequences, FiniteSets, TLC

VARIABLES
    d,        \* grant resource: schema.ResourceData (id and the three attributes)
    grants,   \* engine: the role grants that exist, <<role, kind, principal>>
    last,     \* grant resource: what the last lifecycle call did and returned
    prev,     \* grant resource: the call before the last one
    rcfg,     \* role resource: the name the configuration gives
    rd,       \* role resource: schema.ResourceData (id and the name attribute)
    roles,    \* engine: the names of the roles that exist (rows of SVV_ROLES)
    rlast,    \* role resource: what the last lifecycle call did and returned
    rprev,    \* role resource: the call before the last one
    dbRegistry,              \* config.go: map from connection string to handle
    dbRegistryLock,          \* its mutex: the thread holding it, 0 when free
    serverlessCheckMutex,    \* per configuration: the thread holding it, or 0
    usernameRetrievalMutex,  \* per configuration: the thread holding it, or 0
    checkedForServerless,    \* per configuration
    isServerless,            \* per configuration
    retrievedUsername,       \* per configuration
    pc,       \* per thread: where it is in the call it executes
    call,     \* per thread: the call it executes and its local variables
    ret,      \* per thread: what its last completed call returned
    calls,    \* number of calls started so far
    db        \* the database side: handles opened, queries executed, returns

grantVars == <<d, grants, last, prev>>
roleVars == <<rcfg, rd, roles, rlast, rprev>>
connVars ==
    <<dbRegistry, dbRegistryLock, serverlessCheckMutex, usernameRetrievalMutex,
      checkedForServerless, isServerless, retrievedUsername, pc, call, ret,
      calls, db>>
vars == <<grantVars, roleVars, connVars>>

----------------------------------------------------------------------------
(* Bounds *)

\* longest role / principal name drawn as an input
MaxNameLen == 2

\* threads calling Connect and IsServerless concurrently
NumThreads == 2

\* calls the threads start in one run, all threads together
MaxCalls == 2

----------------------------------------------------------------------------
(* Strings *)

LowerLetters == <<"a", "e", "g", "l", "o", "p", "r", "s", "u">>
UpperLetters == <<"A", "E", "G", "L", "O", "P", "R", "S", "U">>

\* every character a string of the model may hold
Chars ==
    {LowerLetters[i] : i \in 1..Len(LowerLetters)}
        \cup {UpperLetters[i] : i \in 1..Len(UpperLetters)}
        \cup {":", "\""}

LowerTable ==
    [c \in Chars |->
        IF \E i \in 1..Len(UpperLetters) : UpperLetters[i] = c
        THEN LowerLetters[CHOOSE i \in 1..Len(UpperLetters) : UpperLetters[i] = c]
        ELSE c]

UpperTable ==
    [c \in Chars |->
        IF \E i \in 1..Len(LowerLetters) : LowerLetters[i] = c
        THEN UpperLetters[CHOOSE i \in 1..Len(LowerLetters) : LowerLetters[i] = c]
        ELSE c]

ToLowerChar(c) == LowerTable[c]

ToUpperChar(c) == UpperTable[c]

\* strings.ToLower
ToLower(s) == [i \in 1..Len(s) |-> ToLowerChar(s[i])]

\* strings.ToUpper
ToUpper(s) == [i \in 1..Len(s) |-> ToUpperChar(s[i])]

\* strings.Split(s, sep) for a one-character separator: always at least one
\* field, and one field more than there are separators in s.
RECURSIVE Split(_, _)
Split(s, sep) ==
    IF \A i \in 1..Len(s) : s[i] # sep
    THEN <<s>>
    ELSE LET k == CHOOSE i \in 1..Len(s) :
                      /\ s[i] = sep
                      /\ \A j \in 1..(i - 1) : s[j] # sep
         IN  <<SubSeq(s, 1, k - 1)>> \o Split(SubSeq(s, k + 1, Len(s)), sep)

\* strings.Replace(s, `"`, `""`, -1)
RECURSIVE DoubleQuotes(_)
DoubleQuotes(s) ==
    IF s = <<>> THEN <<>>
    ELSE (IF Head(s) = "\"" THEN <<"\"", "\"">> ELSE <<Head(s)>>)
         \o DoubleQuotes(Tail(s))

\* pq.QuoteIdentifier
QuoteIdentifier(s) == <<"\"">> \o DoubleQuotes(s) \o <<"\"">>

\* the engine reading a quoted identifier back
RECURSIVE UndoubleQuotes(_)
UndoubleQuotes(s) ==
    IF s = <<>> THEN <<>>
    ELSE IF Len(s) >= 2 /\ s[1] = "\"" /\ s[2] = "\""
         THEN <<"\"">> \o UndoubleQuotes(SubSeq(s, 3, Len(s)))
         ELSE <<Head(s)>> \o UndoubleQuotes(Tail(s))

Unquote(q) == UndoubleQuotes(SubSeq(q, 2, Len(q) - 1))

EmptyString == <<>>
Colon == ":"

KUser  == <<"u", "s", "e", "r">>
KRole  == <<"r", "o", "l", "e">>
KGroup == <<"g", "r", "o", "u", "p">>

----------------------------------------------------------------------------
(* Inputs *)

NameChars == {"a", "A", ":"}

RECURSIVE StringsOfLen(_)
StringsOfLen(n) ==
    IF n = 0 THEN {<<>>}
    ELSE {<<c>> \o s : c \in NameChars, s \in StringsOfLen(n - 1)}

\* role names as the configuration may give them
Names == UNION {StringsOfLen(n) : n \in 1..MaxNameLen}

\* principal names as the configuration may give them
PrincipalNames == {<<"a">>, <<"A">>, <<"a", ":">>}

\* grant_to_type as the configuration may give it: the three kinds in several
\* letter cases, and one value outside the enumeration
KindInputs ==
    { KUser, <<"U", "s", "e", "r">>,
      KRole, <<"R", "O", "L", "E">>,
      KGroup, <<"G", "r", "o", "u", "p">>,
      <<"a", "l", "l">> }

----------------------------------------------------------------------------
(* The engine, as far as the grant resource talks to it *)

\* Identifiers are case-insensitive in the engine: it folds them to lowercase.
EngineName(q) == ToLower(Unquote(q))

\* The grant a GRANT ROLE / REVOKE ROLE statement names, or <<>> when the
\* statement's principal-kind keyword is not one the engine's grammar has.
StatementGrant(stmt) ==
    IF Len(stmt.args) = 2
    THEN <<EngineName(stmt.args[1]), KUser, EngineName(stmt.args[2])>>
    ELSE IF stmt.args[2] \in {ToUpper(KRole), ToUpper(KGroup)}
         THEN <<EngineName(stmt.args[1]), ToLower(stmt.args[2]),
                EngineName(stmt.args[3])>>
         ELSE <<>>

\* What tx.Exec(stmt) may return: "ok", an error whose text has "does not
\* exist" in it, or any other error ("error": syntax, privilege, transport).
\* A grant that exists has its role and its principal, so revoking it cannot
\* fail with "does not exist".
ExecAnswers(stmt, g) ==
    IF StatementGrant(stmt) = <<>> THEN {"error"}
    ELSE IF stmt.verb = "REVOKE" /\ StatementGrant(stmt) \in g
         THEN {"ok", "error"}
         ELSE {"ok", "does not exist", "error"}

\* The engine's grants after a committed statement that was answered "ok".
ExecEffect(stmt, g) ==
    IF stmt.verb = "GRANT" THEN g \cup {StatementGrant(stmt)}
    ELSE g \ {StatementGrant(stmt)}

\* The rows of the two system views the Read queries select from.
ViewRows(view, g) ==
    IF view = "SVV_USER_GRANTS"
    THEN {[role_name |-> x[1], user_name |-> x[3], granted_role_name |-> <<>>] :
              x \in {y \in g : y[2] = KUser}}
    ELSE {[role_name |-> x[3], user_name |-> <<>>, granted_role_name |-> x[1]] :
              x \in {y \in g : y[2] = KRole}}

\* WHERE LOWER(col1) = LOWER($1) AND LOWER(col2) = LOWER($2)
QueryMatches(q, g) ==
    \E row \in ViewRows(q.view, g) :
        /\ ToLower(row[q.col1]) = ToLower(q.p1)
        /\ ToLower(row[q.col2]) = ToLower(q.p2)

\* What QueryRow(q).Scan may return: a row, sql.ErrNoRows or another error.
QueryAnswers(q, g) ==
    IF QueryMatches(q, g) THEN {"row", "error"} ELSE {"no rows", "error"}

----------------------------------------------------------------------------
(* The grant resource: provider.go *)

\* ValidateFunc of grant_to_type
ValidateGrantToType(val) ==
    LET v == ToLower(val)
    IN  ~(v # KUser /\ v # KGroup /\ v # KRole)

\* faulty variant: the identifier built without lowercasing its fields
C6_IdNotLowered(roleName, grantToType, grantToName) ==
    KRole \o <<Colon>> \o roleName \o <<Colon>> \o grantToType
          \o <<Colon>> \o grantToName

generateRoleGrantID(roleName, grantToType, grantToName) ==
    KRole \o <<Colon>> \o ToLower(roleName) \o <<Colon>>
          \o ToLower(grantToType) \o <<Colon>> \o ToLower(grantToName)

\* Create: the GRANT statement, grantToType already in upper case
GrantStatement(roleName, grantToType, grantToName) ==
    IF grantToType = ToUpper(KUser)
    THEN [verb |-> "GRANT", fmt |-> "GRANT ROLE %s TO %s",
          args |-> <<QuoteIdentifier(roleName), QuoteIdentifier(grantToName)>>]
    ELSE [verb |-> "GRANT", fmt |-> "GRANT ROLE %s TO %s %s",
          args |-> <<QuoteIdentifier(roleName), grantToType,
                     QuoteIdentifier(grantToName)>>]

\* faulty variant: the REVOKE statement with the kind keyword also for a user
C8_RevokeAlwaysKeyword(roleName, grantToType, grantToName) ==
    [verb |-> "REVOKE", fmt |-> "REVOKE ROLE %s FROM %s %s",
     args |-> <<QuoteIdentifier(roleName), grantToType,
                QuoteIdentifier(grantToName)>>]

\* Delete: the REVOKE statement, grantToType already in upper case
RevokeStatement(roleName, grantToType, grantToName) ==
    IF grantToType = ToUpper(KUser)
    THEN [verb |-> "REVOKE", fmt |-> "REVOKE ROLE %s FROM %s",
          args |-> <<QuoteIdentifier(roleName), QuoteIdentifier(grantToName)>>]
    ELSE [verb |-> "REVOKE", fmt |-> "REVOKE ROLE %s FROM %s %s",
          args |-> <<QuoteIdentifier(roleName), grantToType,
                     QuoteIdentifier(grantToName)>>]

\* faulty variant: the dispatch on the kind as stored, without strings.ToUpper
C7_ReadQueryCaseSensitive(roleName, grantToType, grantToName) ==
    LET k == grantToType
    IN  IF k = KUser
        THEN [view |-> "SVV_USER_GRANTS", col1 |-> "role_name",
              col2 |-> "user_name", p1 |-> roleName, p2 |-> grantToName]
        ELSE IF k = KRole
        THEN [view |-> "SVV_ROLE_GRANTS", col1 |-> "granted_role_name",
              col2 |-> "role_name", p1 |-> roleName, p2 |-> grantToName]
        ELSE IF k = KGroup
        THEN [view |-> "none"]
        ELSE [view |-> "unsupported"]

\* Read: the verification query per kind; "none" for group (trust the state),
\* "unsupported" for every other value
GrantReadQuery(roleName, grantToType, grantToName) ==
    LET k == ToUpper(grantToType)
    IN  IF k = ToUpper(KUser)
        THEN [view |-> "SVV_USER_GRANTS", col1 |-> "role_name",
              col2 |-> "user_name", p1 |-> roleName, p2 |-> grantToName]
        ELSE IF k = ToUpper(KRole)
        THEN [view |-> "SVV_ROLE_GRANTS", col1 |-> "granted_role_name",
              col2 |-> "role_name", p1 |-> roleName, p2 |-> grantToName]
        ELSE IF k = ToUpper(KGroup)
        THEN [view |-> "none"]
        ELSE [view |-> "unsupported"]

GrantReadIssuesQuery(dd) ==
    GrantReadQuery(dd.role_name, dd.grant_to_type, dd.grant_to_name).view
        \in {"SVV_USER_GRANTS", "SVV_ROLE_GRANTS"}

\* the answers Read's query can get with the engine's grants g; "none" when
\* Read issues no query
GrantReadAnswers(dd, g) ==
    IF GrantReadIssuesQuery(dd)
    THEN QueryAnswers(GrantReadQuery(dd.role_name, dd.grant_to_type,
                                     dd.grant_to_name), g)
    ELSE {"none"}

\* faulty variant: a failed query is taken for "no rows" and clears the
\* identifier
C13_ReadErrorClearsId(dd, ans) ==
    LET q == GrantReadQuery(dd.role_name, dd.grant_to_type, dd.grant_to_name)
    IN  IF q.view = "none"
        THEN [result |-> "ok", id |-> dd.id, queries |-> <<>>]
        ELSE IF q.view = "unsupported"
        THEN [result |-> "unsupported grant_to_type", id |-> dd.id,
              queries |-> <<>>]
        ELSE IF ans \in {"no rows", "error"}
        THEN [result |-> "ok", id |-> EmptyString, queries |-> <<q>>]
        ELSE [result |-> "ok", id |-> dd.id, queries |-> <<q>>]

\* resourceRedshiftRoleGrantRead on resource data dd, its query answered ans:
\* what it returns, the identifier it leaves and the queries it issued
GrantRead(dd, ans) ==
    LET q == GrantReadQuery(dd.role_name, dd.grant_to_type, dd.grant_to_name)
    IN  IF q.view = "none"
        THEN [result |-> "ok", id |-> dd.id, queries |-> <<>>]
        ELSE IF q.view = "unsupported"
        THEN [result |-> "unsupported grant_to_type", id |-> dd.id,
              queries |-> <<>>]
        ELSE IF ans = "no rows"
        THEN [result |-> "ok", id |-> EmptyString, queries |-> <<q>>]
        ELSE IF ans = "error"
        THEN [result |-> "error reading role grant", id |-> dd.id,
              queries |-> <<q>>]
        ELSE [result |-> "ok", id |-> dd.id, queries |-> <<q>>]

\* faulty variant: an identifier with more than four fields is accepted
C14_ParseAtLeastFour(id) ==
    LET parts == Split(id, Colon)
    IN  IF Len(parts) < 4 THEN <<>>
        ELSE <<parts[2], ToUpper(parts[3]), parts[4]>>

\* Delete: the identifier split into its fields, <<>> when it does not have
\* exactly four
ParseRoleGrantID(id) ==
    LET parts == Split(id, Colon)
    IN  IF Len(parts) # 4 THEN <<>>
        ELSE <<parts[2], ToUpper(parts[3]), parts[4]>>

\* faulty variant: no Exec error is taken to mean the grant is already gone
C3_RevokeNeverGone(ans) == FALSE

\* faulty variant: every Exec error is taken to mean the grant is already gone
C4_RevokeAnyErrorGone(ans) == ans # "ok"

\* Delete: an Exec error that means the grant is already gone
\* (strings.Contains(err.Error(), "does not exist"))
RevokeAlreadyGone(ans) == ans = "does not exist"

\* startTransaction(db.client): whether a transaction could be begun
StartTransactionAnswers == BOOLEAN

\* deferredRollback(tx), run when the handler returns: it ends a transaction
\* that was begun and not committed, and does nothing to a committed one
deferredRollback(began, committed) == began /\ ~committed

\* what a lifecycle call that has not yet begun a transaction has done
NoTx ==
    [stmts |-> <<>>, began |-> FALSE, commitCalled |-> FALSE,
     committed |-> FALSE, answer |-> "none"]

\* resourceRedshiftRoleGrantCreate up to its commit: "ok" when the statement
\* and the commit succeeded
GrantCreateTx(dd, beginOk, ans, commitOk) ==
    LET roleName    == dd.role_name
        grantToType == ToUpper(dd.grant_to_type)
        grantToName == dd.grant_to_name
        query       == GrantStatement(roleName, grantToType, grantToName)
    IN  IF ~beginOk
        THEN [NoTx EXCEPT !.began = FALSE] @@ [result |-> "begin failed"]
        ELSE IF ans # "ok"
        THEN [result |-> "could not grant role", stmts |-> <<query>>,
              began |-> TRUE, commitCalled |-> FALSE, committed |-> FALSE,
              answer |-> ans]
        ELSE IF ~commitOk
        THEN [result |-> "could not commit transaction", stmts |-> <<query>>,
              began |-> TRUE, commitCalled |-> TRUE, committed |-> FALSE,
              answer |-> ans]
        ELSE [result |-> "ok", stmts |-> <<query>>,
              began |-> TRUE, commitCalled |-> TRUE, committed |-> TRUE,
              answer |-> ans]

\* resourceRedshiftRoleGrantDelete
GrantDeleteTx(id, beginOk, ans, commitOk) ==
    LET parts == ParseRoleGrantID(id)
    IN  IF parts = <<>>
        THEN NoTx @@ [result |-> "invalid role grant ID format"]
        ELSE IF ~beginOk
        THEN NoTx @@ [result |-> "begin failed"]
        ELSE LET query == RevokeStatement(parts[1], parts[2], parts[3])
             IN  IF ans # "ok" /\ ~RevokeAlreadyGone(ans)
                 THEN [result |-> "could not revoke role", stmts |-> <<query>>,
                       began |-> TRUE, commitCalled |-> FALSE,
                       committed |-> FALSE, answer |-> ans]
                 ELSE IF ~commitOk
                 THEN [result |-> "could not commit transaction",
                       stmts |-> <<query>>, began |-> TRUE,
                       commitCalled |-> TRUE, committed |-> FALSE,
                       answer |-> ans]
                 ELSE [result |-> "ok", stmts |-> <<query>>, began |-> TRUE,
                       commitCalled |-> TRUE, committed |-> TRUE,
                       answer |-> ans]

\* the statement Delete would send for identifier id (none for a malformed id)
GrantDeleteStatements(id) ==
    LET parts == ParseRoleGrantID(id)
    IN  IF parts = <<>> THEN {}
        ELSE {RevokeStatement(parts[1], parts[2], parts[3])}

----------------------------------------------------------------------------
(* The resources before any lifecycle call *)

Summary(l) == [op |-> l.op, result |-> l.result, idBefore |-> l.idBefore]

NoRoleCall ==
    [op |-> "none", result |-> "none", stmts |-> <<>>, queries |-> 0,
     began |-> FALSE, commitCalled |-> FALSE, committed |-> FALSE,
     rolledBack |-> FALSE, readAnswer |-> "none", idBefore |-> EmptyString,
     rolesBefore |-> {}, answer |-> "none", txQuery |-> "none"]

\* the role resource before any call, with no configuration
InitRoleIdle ==
    /\ rcfg = EmptyString
    /\ rd = [id |-> EmptyString, name |-> EmptyString]
    /\ roles = {}
    /\ rlast = NoRoleCall
    /\ rprev = Summary(NoRoleCall)

\* the grant resource before any call, with no configuration
InitGrantIdle ==
    /\ d = [id |-> EmptyString, role_name |-> EmptyString,
            grant_to_type |-> EmptyString, grant_to_name |-> EmptyString]
    /\ grants = {}
    /\ last = [op |-> "none"]
    /\ prev = [op |-> "none"]

----------------------------------------------------------------------------
(* The connection registry and the lazily computed facts: config.go *)

Threads == 1..NumThreads

\* the provider's clients, each with the copy of its configuration
Clients == {"c1", "c2"}

\* Config.ConnStr of each client
ConnStr == [c \in Clients |-> IF c = "c1" THEN "dsn1" ELSE "dsn2"]

\* what SELECT current_user returns
CurrentUser == "admin"

NoHandle == 0

\* a Go map: reading key k (the zero value when absent) and assigning to it
MapGet(m, k) ==
    IF \E p \in m : p[1] = k THEN (CHOOSE p \in m : p[1] = k)[2] ELSE NoHandle

MapAssign(m, k, v) == {p \in m : p[1] # k} \cup {<<k, v>>}

\* sync.Mutex.Lock returns only when the mutex is free
MutexFree(m) == m = 0

\* what a racing read of a string that is being written may yield besides the
\* old and the new value: the new length with the old data pointer
TornString == "<torn>"

NoCallConn ==
    [op |-> "none", client |-> "c1", found |-> NoHandle, pingOk |-> TRUE,
     conn |-> NoHandle, opened |-> NoHandle, overlap |-> FALSE,
     idq |-> 0, p1 |-> "none", p2 |-> "none", cached |-> FALSE,
     locked |-> FALSE]

NoReturn ==
    [op |-> "none", client |-> "c1", handle |-> NoHandle, err |-> "none",
     flag |-> FALSE, found |-> NoHandle, pingOk |-> TRUE, opened |-> NoHandle,
     overlap |-> FALSE, idq |-> 0, p1 |-> "none", p2 |-> "none",
     cached |-> FALSE, locked |-> FALSE, name |-> ""]

\* the database side before any call: no handle opened, no query executed
NoDb ==
    [opened   |-> [s \in {"dsn1", "dsn2"} |-> 0],
     faulted  |-> [s \in {"dsn1", "dsn2"} |-> FALSE],
     returned |-> [s \in {"dsn1", "dsn2"} |-> {}],
     probe1   |-> [c \in Clients |-> 0],
     probe2   |-> [c \in Clients |-> 0],
     probe1Answer |-> [c \in Clients |-> "none"],
     flags    |-> [c \in Clients |-> {}],
     identityQueries |-> 0,
     identityOk |-> [c \in Clients |-> 0],
     identityRedone |-> [c \in Clients |-> FALSE],
     handles  |-> 0]

\* after NewConfig and NewClient: both mutexes allocated and free, nothing
\* cached, the registry empty
InitConnIdle ==
    /\ dbRegistry = {}
    /\ dbRegistryLock = 0
    /\ serverlessCheckMutex = [c \in Clients |-> 0]
    /\ usernameRetrievalMutex = [c \in Clients |-> 0]
    /\ checkedForServerless = [c \in Clients |-> FALSE]
    /\ isServerless = [c \in Clients |-> FALSE]
    /\ retrievedUsername = [c \in Clients |-> ""]
    /\ pc = [t \in Threads |-> "idle"]
    /\ call = [t \in Threads |-> NoCallConn]
    /\ ret = [t \in Threads |-> NoReturn]
    /\ calls = 0
    /\ db = NoDb

InitConn ==
    /\ InitGrantIdle
    /\ InitRoleIdle
    /\ InitConnIdle

registryVars == <<dbRegistry, dbRegistryLock>>
serverlessVars == <<serverlessCheckMutex, checkedForServerless, isServerless>>
usernameVars == <<usernameRetrievalMutex, retrievedUsername>>

\* the operations of config.go a thread may call
ConnOps == {"Connect", "IsServerless", "GetUsername"}

\* a thread starts a call of Connect, IsServerless or GetUsername on one of
\* the clients. Threads are interchangeable and so are clients: of the runs
\* that differ only in their names one is kept, the one in which the threads
\* make their first calls in the order of their numbers and the first call of
\* all is on client c1.
StartCall(t) ==
    /\ pc[t] = "idle"
    /\ calls < MaxCalls
    /\ \A u \in Threads : u < t => (pc[u] # "idle" \/ ret[u].op # "none")
    /\ \E op \in ConnOps, c \in (IF calls = 0 THEN {"c1"} ELSE Clients) :
          /\ call' = [call EXCEPT ![t] =
                          [NoCallConn EXCEPT
                              !.op = op, !.client = c,
                              \* another call is in progress when this starts
                              !.overlap = \E u \in Threads : pc[u] # "idle",
                              \* the fact the call is about is cached already
                              !.cached = IF op = "IsServerless"
                                         THEN checkedForServerless[c]
                                         ELSE retrievedUsername[c] # ""]]
          /\ pc' = [pc EXCEPT ![t] = IF op = "Connect" THEN "c_lock"
                                     ELSE IF op = "IsServerless" THEN "s_lock"
                                     ELSE "gu_fast"]
    /\ calls' = calls + 1
    /\ UNCHANGED <<registryVars, serverlessVars, usernameVars, ret, db>>

\* faulty variant: the Unlock is missing, the mutex stays with its holder
C15_UnlockSkipped(holder, err) == holder

\* faulty variant: the mutex is unlocked before a normal return only, an
\* early error return leaves it locked
C16_UnlockOnlyOnSuccess(holder, err) == IF err = "none" THEN 0 ELSE holder

\* defer m.Unlock(): the holder of the mutex after the function has returned
\* err, on every path
DeferredUnlock(holder, err) == 0

(* Client.Connect *)

\* Connect returns (handle, err) to thread t: the deferred Unlock runs
ConnectReturns(t, handle, err, c0, db0) ==
    /\ dbRegistryLock' = DeferredUnlock(t, err)
    /\ pc' = [pc EXCEPT ![t] = "idle"]
    /\ ret' = [ret EXCEPT ![t] =
                  [NoReturn EXCEPT
                      !.op = "Connect", !.client = c0.client,
                      !.handle = handle, !.err = err, !.found = c0.found,
                      !.pingOk = c0.pingOk, !.opened = c0.opened,
                      !.overlap = c0.overlap, !.idq = c0.idq,
                      !.cached = c0.cached, !.locked = c0.locked]]
    /\ call' = [call EXCEPT ![t] = NoCallConn]
    /\ db' = IF err = "none"
             THEN [db0 EXCEPT !.returned[ConnStr[c0.client]] = @ \cup {handle}]
             ELSE [db0 EXCEPT !.faulted[ConnStr[c0.client]] = TRUE]

\* dbRegistryLock.Lock()
ConnectLock(t) ==
    /\ pc[t] = "c_lock"
    /\ MutexFree(dbRegistryLock)
    /\ dbRegistryLock' = t
    /\ pc' = [pc EXCEPT ![t] = "c_lookup"]
    /\ UNCHANGED <<dbRegistry, serverlessVars, usernameVars, call, ret, calls,
                   db>>

\* faulty variant: a new handle is opened on every call
C10_AlwaysNew(found, pingOk) == TRUE

\* !found || conn.Ping() != nil
ConnectNeedsNew(found, pingOk) == found = NoHandle \/ ~pingOk

\* conn, found := dbRegistry[dsn], and conn.Ping() when found
ConnectLookup(t) ==
    /\ pc[t] = "c_lookup"
    /\ LET found == MapGet(dbRegistry, ConnStr[call[t].client])
       IN  \E pingOk \in (IF found = NoHandle THEN {TRUE} ELSE BOOLEAN) :
              LET c0 == [call[t] EXCEPT !.found = found, !.pingOk = pingOk,
                                        !.conn = found]
              IN  IF ConnectNeedsNew(found, pingOk)
                  THEN /\ call' = [call EXCEPT ![t] = c0]
                       /\ pc' = [pc EXCEPT ![t] = "c_open"]
                       /\ db' = IF pingOk THEN db
                                ELSE [db EXCEPT
                                        !.faulted[ConnStr[c0.client]] = TRUE]
                       /\ UNCHANGED <<dbRegistryLock, ret>>
                  ELSE ConnectReturns(t, found, "none", c0, db)
    /\ UNCHANGED <<dbRegistry, serverlessVars, usernameVars, calls>>

\* faulty variant: the new handle is put in the registry as soon as it is
\* opened, before its identity lookup
C22_StoredAtOpen(registry, dsn, conn) == MapAssign(registry, dsn, conn)

\* the registry while the new handle is wrapped and its identity looked up:
\* conn is a local variable, nothing is assigned to dbRegistry before the
\* lookup has returned
RegistryAfterOpen(registry, dsn, conn) == registry

\* sql.Open, SetMaxIdleConns, SetMaxOpenConns, conn = &DBConnection{db, c}
ConnectOpen(t) ==
    /\ pc[t] = "c_open"
    /\ \E ok \in BOOLEAN :
          IF ok
          THEN LET h == db.handles + 1
               IN  /\ call' = [call EXCEPT ![t].conn = h, ![t].opened = h]
                   /\ db' = [db EXCEPT !.handles = h,
                                !.opened[ConnStr[call[t].client]] = @ + 1]
                   /\ dbRegistry' =
                          RegistryAfterOpen(dbRegistry,
                                            ConnStr[call[t].client], h)
                   /\ pc' = [pc EXCEPT ![t] = "gu_fast"]
                   /\ UNCHANGED <<dbRegistryLock, ret>>
          ELSE /\ ConnectReturns(t, NoHandle,
                                 "error creating Redshift driver instance",
                                 call[t], db)
               /\ UNCHANGED dbRegistry
    /\ UNCHANGED <<serverlessVars, usernameVars, calls>>

(* Config.GetUsername, called by Connect on the client's configuration or by
   a thread directly *)

\* faulty variant: no read before the mutex is taken, every call locks
C17_NoFastPath(name) == FALSE

\* the first check: if c.retrievedUsername != "", without the mutex
GetUsernameFastHit(name) == name # ""

\* faulty variant: no second check, whoever gets the mutex queries
C11_NoRecheck(name) == FALSE

\* the second check: if c.retrievedUsername != "", under the mutex
GetUsernameRecheck(name) == name # ""

\* GetUsername returns (name, err) to thread t, its mutex left as mutexAfter:
\* to Connect, which goes on or returns the wrapped error, or to the thread
\* that called it directly
GetUsernameReturns(t, name, err, mutexAfter, c0, db0) ==
    /\ usernameRetrievalMutex' = mutexAfter
    /\ IF c0.op = "Connect"
       THEN IF err = "none"
            THEN /\ pc' = [pc EXCEPT ![t] = "c_store"]
                 /\ call' = [call EXCEPT ![t] = c0]
                 /\ db' = db0
                 /\ UNCHANGED <<dbRegistryLock, ret>>
            ELSE ConnectReturns(t, NoHandle,
                     "error retrieving username from Redshift database",
                     c0, db0)
       ELSE /\ pc' = [pc EXCEPT ![t] = "idle"]
            /\ ret' = [ret EXCEPT ![t] =
                          [NoReturn EXCEPT
                              !.op = "GetUsername", !.client = c0.client,
                              !.name = name, !.err = err,
                              !.overlap = c0.overlap, !.idq = c0.idq,
                              !.cached = c0.cached, !.locked = c0.locked]]
            /\ call' = [call EXCEPT ![t] = NoCallConn]
            /\ db' = db0
            /\ UNCHANGED dbRegistryLock

\* another thread is between its successful query and the end of its
\* assignment c.retrievedUsername = username
UsernameBeingWritten(t, c) ==
    \E u \in Threads \ {t} : pc[u] = "gu_write" /\ call[u].client = c

\* if c.retrievedUsername != "" { return c.retrievedUsername, nil }: two reads
\* without the mutex. While another thread assigns the field the reads race
\* with the write: the test may see the old or the new length, and the value
\* returned may be the new string or the new length with the old pointer.
GetUsernameFast(t) ==
    /\ pc[t] = "gu_fast"
    /\ LET c == call[t].client
       IN  \E seen \in (IF UsernameBeingWritten(t, c)
                        THEN {"", CurrentUser, TornString}
                        ELSE {retrievedUsername[c]}) :
              IF GetUsernameFastHit(seen)
              THEN GetUsernameReturns(t, seen, "none", usernameRetrievalMutex,
                                      call[t], db)
              ELSE /\ pc' = [pc EXCEPT ![t] = "gu_lock"]
                   /\ UNCHANGED <<usernameRetrievalMutex, dbRegistryLock, call,
                                  ret, db>>
    /\ UNCHANGED <<dbRegistry, serverlessVars, retrievedUsername, calls>>

\* c.usernameRetrievalMutex.Lock()
GetUsernameLock(t) ==
    /\ pc[t] = "gu_lock"
    /\ MutexFree(usernameRetrievalMutex[call[t].client])
    /\ usernameRetrievalMutex' =
           [usernameRetrievalMutex EXCEPT ![call[t].client] = t]
    /\ call' = [call EXCEPT ![t].locked = TRUE]
    /\ pc' = [pc EXCEPT ![t] = "gu_check"]
    /\ UNCHANGED <<registryVars, serverlessVars, retrievedUsername, ret,
                   calls, db>>

\* the second check, under the mutex
GetUsernameCheck(t) ==
    /\ pc[t] = "gu_check"
    /\ LET c == call[t].client
       IN  IF GetUsernameRecheck(retrievedUsername[c])
           THEN GetUsernameReturns(t, retrievedUsername[c], "none",
                    [usernameRetrievalMutex EXCEPT
                        ![c] = DeferredUnlock(t, "none")],
                    call[t], db)
           ELSE /\ pc' = [pc EXCEPT ![t] = "gu_query"]
                /\ UNCHANGED <<usernameRetrievalMutex, dbRegistryLock, call,
                               ret, db>>
    /\ UNCHANGED <<dbRegistry, serverlessVars, retrievedUsername, calls>>

\* row := db.QueryRow("SELECT current_user;"), row.Err(), row.Scan(&username)
GetUsernameQuery(t) ==
    /\ pc[t] = "gu_query"
    /\ \E ans \in {"ok", "error retrieving current user",
                   "error scanning current user"} :
          LET c   == call[t].client
              c1  == [call[t] EXCEPT !.idq = @ + 1]
              db1 == [db EXCEPT !.identityQueries = @ + 1,
                                !.identityRedone[c] = @ \/ db.identityOk[c] > 0]
          IN  IF ans = "ok"
              THEN /\ pc' = [pc EXCEPT ![t] = "gu_write"]
                   /\ call' = [call EXCEPT ![t] = c1]
                   /\ db' = [db1 EXCEPT !.identityOk[c] = @ + 1]
                   /\ UNCHANGED <<usernameRetrievalMutex, dbRegistryLock, ret>>
              ELSE GetUsernameReturns(t, "", ans,
                       [usernameRetrievalMutex EXCEPT
                           ![c] = DeferredUnlock(t, ans)],
                       c1, db1)
    /\ UNCHANGED <<dbRegistry, serverlessVars, retrievedUsername, calls>>

\* c.retrievedUsername = username; return c.retrievedUsername, nil
GetUsernameWrite(t) ==
    /\ pc[t] = "gu_write"
    /\ LET c == call[t].client
       IN  /\ retrievedUsername' = [retrievedUsername EXCEPT ![c] = CurrentUser]
           /\ GetUsernameReturns(t, CurrentUser, "none",
                  [usernameRetrievalMutex EXCEPT
                      ![c] = DeferredUnlock(t, "none")],
                  call[t], db)
    /\ UNCHANGED <<dbRegistry, serverlessVars, calls>>

\* dbRegistry[dsn] = conn; return conn, nil
ConnectStore(t) ==
    /\ pc[t] = "c_store"
    /\ dbRegistry' = MapAssign(dbRegistry, ConnStr[call[t].client],
                               call[t].conn)
    /\ ConnectReturns(t, call[t].conn, "none", call[t], db)
    /\ UNCHANGED <<serverlessVars, usernameVars, calls>>

(* Config.IsServerless *)

\* IsServerless returns (flag, err) to thread t: the deferred Unlock runs
ServerlessReturns(t, flag, err, c0, db0) ==
    /\ serverlessCheckMutex' =
           [serverlessCheckMutex EXCEPT ![c0.client] = DeferredUnlock(t, err)]
    /\ pc' = [pc EXCEPT ![t] = "idle"]
    /\ ret' = [ret EXCEPT ![t] =
                  [NoReturn EXCEPT !.op = "IsServerless",
                                   !.client = c0.client,
                                   !.flag = flag, !.err = err,
                                   !.overlap = c0.overlap,
                                   !.p1 = c0.p1, !.p2 = c0.p2,
                                   !.cached = c0.cached,
                                   !.locked = c0.locked]]
    /\ call' = [call EXCEPT ![t] = NoCallConn]
    /\ db' = [db0 EXCEPT !.flags[c0.client] = @ \cup {flag}]

\* faulty variant: the serverless check does not wait for its mutex
C2_NoMutualExclusion(c) == TRUE

\* c.serverlessCheckMutex.Lock() can return
ServerlessMutexFree(c) == MutexFree(serverlessCheckMutex[c])

ServerlessLock(t) ==
    /\ pc[t] = "s_lock"
    /\ ServerlessMutexFree(call[t].client)
    /\ serverlessCheckMutex' =
           [serverlessCheckMutex EXCEPT ![call[t].client] = t]
    /\ call' = [call EXCEPT ![t].locked = TRUE]
    /\ pc' = [pc EXCEPT ![t] = "s_check"]
    /\ UNCHANGED <<registryVars, checkedForServerless, isServerless,
                   usernameVars, ret, calls, db>>

\* faulty variant: the flag is left unset, to be set once a probe has decided
C20_NotMarked == FALSE

\* c.checkedForServerless = true, before the first probe
ServerlessMarksChecked == TRUE

\* if c.checkedForServerless { return c.isServerless, nil };
\* c.checkedForServerless = true
ServerlessCheck(t) ==
    /\ pc[t] = "s_check"
    /\ IF checkedForServerless[call[t].client]
       THEN /\ ServerlessReturns(t, isServerless[call[t].client], "none",
                                 call[t], db)
            /\ UNCHANGED checkedForServerless
       ELSE /\ checkedForServerless' =
                   [checkedForServerless EXCEPT
                       ![call[t].client] = ServerlessMarksChecked]
            /\ pc' = [pc EXCEPT ![t] = "s_probe1"]
            /\ UNCHANGED <<serverlessCheckMutex, call, ret, db>>
    /\ UNCHANGED <<registryVars, isServerless, usernameVars, calls>>

\* db.Query("SELECT 1 FROM SYS_SERVERLESS_USAGE")
ServerlessProbe1(t) ==
    /\ pc[t] = "s_probe1"
    /\ \E ans \in {"ok", "insufficient privilege", "error"} :
          LET c   == call[t].client
              c1  == [call[t] EXCEPT !.p1 = ans]
              db1 == [db EXCEPT !.probe1[c] = @ + 1, !.probe1Answer[c] = ans]
          IN  IF ans = "ok"
              THEN /\ isServerless' = [isServerless EXCEPT ![c] = TRUE]
                   /\ ServerlessReturns(t, TRUE, "none", c1, db1)
              ELSE IF ans = "insufficient privilege"
              THEN /\ pc' = [pc EXCEPT ![t] = "s_probe2"]
                   /\ call' = [call EXCEPT ![t] = c1]
                   /\ db' = db1
                   /\ UNCHANGED <<serverlessCheckMutex, isServerless, ret>>
              ELSE /\ ServerlessReturns(t, FALSE, "error", c1, db1)
                   /\ UNCHANGED isServerless
    /\ UNCHANGED <<registryVars, checkedForServerless, usernameVars, calls>>

\* faulty variant: the second probe read the other way round
C19_Probe2Inverted(ans) == ans = "ok"

\* the flag after the second probe: an error means Multi-AZ provisioned,
\* which counts as serverless
ServerlessAfterProbe2(ans) == ans # "ok"

\* db.Query("SELECT 1 FROM SVL_QUERY_SUMMARY")
ServerlessProbe2(t) ==
    /\ pc[t] = "s_probe2"
    /\ \E ans \in {"ok", "error"} :
          LET c   == call[t].client
              c1  == [call[t] EXCEPT !.p2 = ans]
              db1 == [db EXCEPT !.probe2[c] = @ + 1]
          IN  /\ isServerless' =
                     [isServerless EXCEPT ![c] = ServerlessAfterProbe2(ans)]
              /\ ServerlessReturns(t, ServerlessAfterProbe2(ans), "none", c1,
                                   db1)
    /\ UNCHANGED <<registryVars, checkedForServerless, usernameVars, calls>>

\* the steps of a call thread t has started
ThreadStep(t) ==
    \/ ConnectLock(t) /\ UNCHANGED <<grantVars, roleVars>>
    \/ ConnectLookup(t) /\ UNCHANGED <<grantVars, roleVars>>
    \/ ConnectOpen(t) /\ UNCHANGED <<grantVars, roleVars>>
    \/ GetUsernameFast(t) /\ UNCHANGED <<grantVars, roleVars>>
    \/ GetUsernameLock(t) /\ UNCHANGED <<grantVars, roleVars>>
    \/ GetUsernameCheck(t) /\ UNCHANGED <<grantVars, roleVars>>
    \/ GetUsernameQuery(t) /\ UNCHANGED <<grantVars, roleVars>>
    \/ GetUsernameWrite(t) /\ UNCHANGED <<grantVars, roleVars>>
    \/ ConnectStore(t) /\ UNCHANGED <<grantVars, roleVars>>
    \/ ServerlessLock(t) /\ UNCHANGED <<grantVars, roleVars>>
    \/ ServerlessCheck(t) /\ UNCHANGED <<grantVars, roleVars>>
    \/ ServerlessProbe1(t) /\ UNCHANGED <<grantVars, roleVars>>
    \/ ServerlessProbe2(t) /\ UNCHANGED <<grantVars, roleVars>>

NextConn ==
    \E t \in Threads :
        \/ StartCall(t) /\ UNCHANGED <<grantVars, roleVars>>
        \/ ThreadStep(t)

SpecConn == InitConn /\ [][NextConn]_vars

\* The scheduler runs every goroutine that can take a step, and every
\* database call returns: a started call that can go on does go on.
SpecConnFair == SpecConn /\ \A t \in Threads : WF_vars(ThreadStep(t))

----------------------------------------------------------------------------
(* The role resource: complete_hierarchy.tf *)

\* the role a CREATE ROLE statement names, as the engine stores it
RoleStatement(verb, roleName) ==
    [verb |-> verb, args |-> <<QuoteIdentifier(roleName)>>]

\* SELECT role_name FROM SVV_ROLES WHERE role_name = $1: the stored name that
\* equals the parameter, if there is one
RoleQueryAnswers(p1, rs) ==
    IF p1 \in rs THEN {"row", "error"} ELSE {"no rows", "error"}

\* what tx.Exec of CREATE ROLE may return: it cannot succeed for a role that
\* exists
CreateRoleAnswers(roleName, rs) ==
    IF EngineName(QuoteIdentifier(roleName)) \in rs THEN {"error"}
    ELSE {"ok", "error"}

\* faulty variant: the identifier is the name as configured, not lowercased
C9_IdAsConfigured(roleName) == roleName

\* Create: the identifier given to the resource
RoleCreateId(roleName) == ToLower(roleName)

\* faulty variant: a failed query also clears the identifier
C23_RoleReadErrorClearsId(dd, ans) ==
    IF ans \in {"no rows", "error"}
    THEN [result |-> IF ans = "error" THEN "error reading role" ELSE "ok",
          id |-> EmptyString, name |-> dd.name]
    ELSE [result |-> "ok", id |-> dd.id, name |-> dd.id]

\* resourceRedshiftRoleRead on resource data dd, its query answered ans
RoleRead(dd, ans) ==
    IF ans = "no rows"
    THEN [result |-> "ok", id |-> EmptyString, name |-> dd.name]
    ELSE IF ans = "error"
    THEN [result |-> "error reading role", id |-> dd.id, name |-> dd.name]
    ELSE [result |-> "ok", id |-> dd.id, name |-> dd.id]

\* resourceRedshiftRoleCreate up to its commit, for the configured name:
\* vans is the answer of the verification query inside the transaction
RoleCreateTx(roleName, beginOk, ans, vans, commitOk) ==
    LET create == RoleStatement("CREATE ROLE", roleName)
    IN  IF ~beginOk
        THEN [result |-> "begin failed", stmts |-> <<>>, queries |-> 0,
              began |-> FALSE, commitCalled |-> FALSE, committed |-> FALSE,
              id |-> EmptyString, idSet |-> FALSE]
        ELSE IF ans # "ok"
        THEN [result |-> "could not create redshift role",
              stmts |-> <<create>>, queries |-> 0,
              began |-> TRUE, commitCalled |-> FALSE, committed |-> FALSE,
              id |-> EmptyString, idSet |-> FALSE]
        ELSE IF vans # "row"
        THEN [result |-> "could not verify role creation",
              stmts |-> <<create>>, queries |-> 1,
              began |-> TRUE, commitCalled |-> FALSE, committed |-> FALSE,
              id |-> EmptyString, idSet |-> FALSE]
        ELSE IF ~commitOk
        THEN [result |-> "could not commit transaction",
              stmts |-> <<create>>, queries |-> 1,
              began |-> TRUE, commitCalled |-> TRUE, committed |-> FALSE,
              id |-> RoleCreateId(roleName), idSet |-> TRUE]
        ELSE [result |-> "ok", stmts |-> <<create>>, queries |-> 1,
              began |-> TRUE, commitCalled |-> TRUE, committed |-> TRUE,
              id |-> RoleCreateId(roleName), idSet |-> TRUE]

\* Update: ALTER ROLE <old> RENAME TO <new>
RenameStatement(oldName, newName) ==
    [verb |-> "ALTER ROLE RENAME",
     args |-> <<QuoteIdentifier(oldName), QuoteIdentifier(newName)>>]

\* what tx.Exec of the rename may return: it cannot succeed unless the old
\* role exists and no role has the new name
RenameAnswers(stmt, rs) ==
    IF EngineName(stmt.args[1]) \in rs /\ EngineName(stmt.args[2]) \notin rs
    THEN {"ok", "error"}
    ELSE {"error"}

\* the engine's roles after a committed rename
RenameEffect(stmt, rs) ==
    (rs \ {EngineName(stmt.args[1])}) \cup {EngineName(stmt.args[2])}

\* d.HasChange(roleNameAttr): the name of the state against the configured one
RoleHasChange(oldName, newName) == oldName # newName

\* faulty variant: the identifier is assigned before the commit, as in
\* Create, so a failed commit leaves the new name as the identifier
C24_IdSetBeforeCommit(oldName, newName, beginOk, ans, commitOk) ==
    LET rename == RenameStatement(oldName, newName)
    IN  IF ~RoleHasChange(oldName, newName)
        THEN [result |-> "ok", stmts |-> <<>>, began |-> FALSE,
              commitCalled |-> FALSE, committed |-> FALSE,
              id |-> EmptyString, idSet |-> FALSE]
        ELSE IF ~beginOk
        THEN [result |-> "begin failed", stmts |-> <<>>, began |-> FALSE,
              commitCalled |-> FALSE, committed |-> FALSE,
              id |-> EmptyString, idSet |-> FALSE]
        ELSE IF ans # "ok"
        THEN [result |-> "error renaming role", stmts |-> <<rename>>,
              began |-> TRUE, commitCalled |-> FALSE, committed |-> FALSE,
              id |-> EmptyString, idSet |-> FALSE]
        ELSE IF ~commitOk
        THEN [result |-> "could not commit transaction", stmts |-> <<rename>>,
              began |-> TRUE, commitCalled |-> TRUE, committed |-> FALSE,
              id |-> ToLower(newName), idSet |-> TRUE]
        ELSE [result |-> "ok", stmts |-> <<rename>>, began |-> TRUE,
              commitCalled |-> TRUE, committed |-> TRUE,
              id |-> ToLower(newName), idSet |-> TRUE]

\* resourceRedshiftRoleUpdate up to the read-back, renaming oldName to newName
RoleUpdateTx(oldName, newName, beginOk, ans, commitOk) ==
    LET rename == RenameStatement(oldName, newName)
    IN  IF ~RoleHasChange(oldName, newName)
        THEN [result |-> "ok", stmts |-> <<>>, began |-> FALSE,
              commitCalled |-> FALSE, committed |-> FALSE,
              id |-> EmptyString, idSet |-> FALSE]
        ELSE IF ~beginOk
        THEN [result |-> "begin failed", stmts |-> <<>>, began |-> FALSE,
              commitCalled |-> FALSE, committed |-> FALSE,
              id |-> EmptyString, idSet |-> FALSE]
        ELSE IF ans # "ok"
        THEN [result |-> "error renaming role", stmts |-> <<rename>>,
              began |-> TRUE, commitCalled |-> FALSE, committed |-> FALSE,
              id |-> EmptyString, idSet |-> FALSE]
        ELSE IF ~commitOk
        THEN [result |-> "could not commit transaction", stmts |-> <<rename>>,
              began |-> TRUE, commitCalled |-> TRUE, committed |-> FALSE,
              id |-> EmptyString, idSet |-> FALSE]
        ELSE [result |-> "ok", stmts |-> <<rename>>, began |-> TRUE,
              commitCalled |-> TRUE, committed |-> TRUE,
              id |-> ToLower(newName), idSet |-> TRUE]

\* SELECT EXISTS(SELECT 1 FROM SVV_ROLES WHERE role_name = $1), scanned into
\* a bool
RoleExistsAnswers(p1, rs) ==
    IF p1 \in rs THEN {"true", "error"} ELSE {"false", "error"}

\* what tx.Exec of DROP ROLE may return: it cannot succeed for a role that
\* does not exist
DropRoleAnswers(stmt, rs) ==
    IF EngineName(stmt.args[1]) \in rs THEN {"ok", "error"} ELSE {"error"}

\* faulty variant: the error of DROP ROLE is not checked, Delete goes on to
\* the commit
C12_DropErrorIgnored(id, beginOk, qans, ans, commitOk) ==
    LET drop == RoleStatement("DROP ROLE", id)
    IN  IF ~beginOk
        THEN [result |-> "begin failed", stmts |-> <<>>, queries |-> 0,
              began |-> FALSE, commitCalled |-> FALSE, committed |-> FALSE]
        ELSE IF qans = "error"
        THEN [result |-> "error", stmts |-> <<>>, queries |-> 1,
              began |-> TRUE, commitCalled |-> FALSE, committed |-> FALSE]
        ELSE IF qans = "false"
        THEN [result |-> "ok", stmts |-> <<>>, queries |-> 1,
              began |-> TRUE, commitCalled |-> FALSE, committed |-> FALSE]
        ELSE IF ~commitOk
        THEN [result |-> "could not commit transaction", stmts |-> <<drop>>,
              queries |-> 1,
              began |-> TRUE, commitCalled |-> TRUE, committed |-> FALSE]
        ELSE [result |-> "ok", stmts |-> <<drop>>, queries |-> 1,
              began |-> TRUE, commitCalled |-> TRUE, committed |-> TRUE]

\* faulty variant: no branch on the existence check, DROP ROLE is sent
\* whatever the check found
C25_DropWithoutCheck(id, beginOk, qans, ans, commitOk) ==
    LET drop == RoleStatement("DROP ROLE", id)
    IN  IF ~beginOk
        THEN [result |-> "begin failed", stmts |-> <<>>, queries |-> 0,
              began |-> FALSE, commitCalled |-> FALSE, committed |-> FALSE]
        ELSE IF qans = "error"
        THEN [result |-> "error", stmts |-> <<>>, queries |-> 1,
              began |-> TRUE, commitCalled |-> FALSE, committed |-> FALSE]
        ELSE IF ans # "ok"
        THEN [result |-> "error dropping role", stmts |-> <<drop>>,
              queries |-> 1,
              began |-> TRUE, commitCalled |-> FALSE, committed |-> FALSE]
        ELSE IF ~commitOk
        THEN [result |-> "could not commit transaction", stmts |-> <<drop>>,
              queries |-> 1,
              began |-> TRUE, commitCalled |-> TRUE, committed |-> FALSE]
        ELSE [result |-> "ok", stmts |-> <<drop>>, queries |-> 1,
              began |-> TRUE, commitCalled |-> TRUE, committed |-> TRUE]

\* resourceRedshiftRoleDelete: qans is the answer of the existence check
RoleDeleteTx(id, beginOk, qans, ans, commitOk) ==
    LET drop == RoleStatement("DROP ROLE", id)
    IN  IF ~beginOk
        THEN [result |-> "begin failed", stmts |-> <<>>, queries |-> 0,
              began |-> FALSE, commitCalled |-> FALSE, committed |-> FALSE]
        ELSE IF qans = "error"
        THEN [result |-> "error", stmts |-> <<>>, queries |-> 1,
              began |-> TRUE, commitCalled |-> FALSE, committed |-> FALSE]
        ELSE IF qans = "false"
        THEN [result |-> "ok", stmts |-> <<>>, queries |-> 1,
              began |-> TRUE, commitCalled |-> FALSE, committed |-> FALSE]
        ELSE IF ans # "ok"
        THEN [result |-> "error dropping role", stmts |-> <<drop>>,
              queries |-> 1,
              began |-> TRUE, commitCalled |-> FALSE, committed |-> FALSE]
        ELSE IF ~commitOk
        THEN [result |-> "could not commit transaction", stmts |-> <<drop>>,
              queries |-> 1,
              began |-> TRUE, commitCalled |-> TRUE, committed |-> FALSE]
        ELSE [result |-> "ok", stmts |-> <<drop>>, queries |-> 1,
              began |-> TRUE, commitCalled |-> TRUE, committed |-> TRUE]

----------------------------------------------------------------------------
(* The role resource as a state machine *)

InitRole ==
    /\ InitGrantIdle
    /\ InitConnIdle
    /\ rcfg \in Names
    /\ rd = [id |-> EmptyString, name |-> EmptyString]
    /\ roles \in {{}, {ToLower(rcfg)}}
    /\ rlast = NoRoleCall
    /\ rprev = Summary(NoRoleCall)

resourceRedshiftRoleCreate ==
    /\ rd.id = EmptyString
    /\ \E beginOk \in StartTransactionAnswers :
       \E ans \in (IF beginOk THEN CreateRoleAnswers(rcfg, roles)
                   ELSE {"none"}) :
       \E vans \in (IF ans = "ok"
                    THEN RoleQueryAnswers(ToLower(rcfg),
                             roles \cup {EngineName(QuoteIdentifier(rcfg))})
                    ELSE {"none"}) :
       \E commitOk \in (IF vans = "row" THEN BOOLEAN ELSE {TRUE}) :
          LET c  == RoleCreateTx(rcfg, beginOk, ans, vans, commitOk)
              r1 == IF c.committed
                    THEN roles \cup {EngineName(QuoteIdentifier(rcfg))}
                    ELSE roles
              d1 == [rd EXCEPT !.id = IF c.idSet THEN c.id ELSE @]
          IN  \* between the commit and the read-back another session may
              \* drop the role
              \E r2 \in (IF c.result = "ok"
                         THEN {r1, r1 \ {EngineName(QuoteIdentifier(rcfg))}}
                         ELSE {r1}) :
              \E rans \in (IF c.result = "ok" THEN RoleQueryAnswers(d1.id, r2)
                           ELSE {"none"}) :
                 LET r == IF c.result = "ok" THEN RoleRead(d1, rans)
                          ELSE [result |-> c.result, id |-> d1.id,
                                name |-> d1.name]
                 IN  /\ rd' = [id |-> r.id, name |-> r.name]
                     /\ roles' = r2
                     /\ rlast' = [op |-> "Create", result |-> r.result,
                                  stmts |-> c.stmts,
                                  queries |-> c.queries
                                      + (IF c.result = "ok" THEN 1 ELSE 0),
                                  began |-> c.began,
                                  commitCalled |-> c.commitCalled,
                                  committed |-> c.committed,
                                  rolledBack |->
                                      deferredRollback(c.began, c.committed),
                                  readAnswer |-> rans,
                                  idBefore |-> rd.id, rolesBefore |-> roles,
                                  answer |-> ans, txQuery |-> vans]
                     /\ rprev' = Summary(rlast)
                     /\ UNCHANGED rcfg

resourceRedshiftRoleRead ==
    /\ rd.id # EmptyString
    /\ \E rans \in RoleQueryAnswers(rd.id, roles) :
          LET r == RoleRead(rd, rans)
          IN  /\ rd' = [id |-> r.id, name |-> r.name]
              /\ rlast' = [NoRoleCall EXCEPT !.op = "Read",
                                             !.result = r.result,
                                             !.queries = 1,
                                             !.readAnswer = rans,
                                             !.idBefore = rd.id,
                                             !.rolesBefore = roles]
              /\ rprev' = Summary(rlast)
              /\ UNCHANGED <<rcfg, roles>>

\* the names a changed configuration may give the role: the name "a" (no
\* change for a role of that name), the same name in another letter case,
\* and another name
NewNames == {<<"a">>, <<"A">>, <<"A", "a">>}

\* the configuration changes the name to newName and the framework calls
\* Update
resourceRedshiftRoleUpdate ==
    /\ rd.id # EmptyString
    /\ \E newName \in NewNames :
       \E beginOk \in (IF RoleHasChange(rd.name, newName)
                       THEN StartTransactionAnswers ELSE {TRUE}) :
       \E ans \in (IF RoleHasChange(rd.name, newName) /\ beginOk
                   THEN RenameAnswers(RenameStatement(rd.name, newName), roles)
                   ELSE {"none"}) :
       \E commitOk \in (IF ans = "ok" THEN BOOLEAN ELSE {TRUE}) :
          LET c  == RoleUpdateTx(rd.name, newName, beginOk, ans, commitOk)
              r1 == IF c.committed THEN RenameEffect(c.stmts[1], roles)
                    ELSE roles
              d1 == [rd EXCEPT !.id = IF c.idSet THEN c.id ELSE @]
          IN  \E rans \in (IF c.result = "ok" THEN RoleQueryAnswers(d1.id, r1)
                           ELSE {"none"}) :
                 LET r == IF c.result = "ok" THEN RoleRead(d1, rans)
                          ELSE [result |-> c.result, id |-> d1.id,
                                name |-> d1.name]
                 IN  /\ rd' = [id |-> r.id, name |-> r.name]
                     /\ roles' = r1
                     /\ rcfg' = newName
                     /\ rlast' = [op |-> "Update", result |-> r.result,
                                  stmts |-> c.stmts,
                                  queries |-> IF c.result = "ok" THEN 1 ELSE 0,
                                  began |-> c.began,
                                  commitCalled |-> c.commitCalled,
                                  committed |-> c.committed,
                                  rolledBack |->
                                      deferredRollback(c.began, c.committed),
                                  readAnswer |-> rans,
                                  idBefore |-> rd.id, rolesBefore |-> roles,
                                  answer |-> ans, txQuery |-> "none"]
                     /\ rprev' = Summary(rlast)

resourceRedshiftRoleDelete ==
    /\ rd.id # EmptyString
    /\ \E beginOk \in StartTransactionAnswers :
       \E qans \in (IF beginOk THEN RoleExistsAnswers(rd.id, roles)
                    ELSE {"none"}) :
       \E ans \in (IF qans = "true"
                   THEN DropRoleAnswers(RoleStatement("DROP ROLE", rd.id),
                                        roles)
                   ELSE {"none"}) :
       \E commitOk \in (IF ans = "ok" THEN BOOLEAN ELSE {TRUE}) :
          LET c == RoleDeleteTx(rd.id, beginOk, qans, ans, commitOk)
          IN  /\ roles' = IF c.committed
                          THEN roles \ {EngineName(c.stmts[1].args[1])}
                          ELSE roles
              /\ rlast' = [op |-> "Delete", result |-> c.result,
                           stmts |-> c.stmts, queries |-> c.queries,
                           began |-> c.began,
                           commitCalled |-> c.commitCalled,
                           committed |-> c.committed,
                           rolledBack |->
                               deferredRollback(c.began, c.committed),
                           readAnswer |-> "none",
                           idBefore |-> rd.id, rolesBefore |-> roles,
                           answer |-> ans, txQuery |-> qans]
              /\ rprev' = Summary(rlast)
              /\ UNCHANGED <<rcfg, rd>>

\* another session drops a role
OutOfBandDrop ==
    /\ \E r \in roles : roles' = roles \ {r}
    /\ rlast' = [NoRoleCall EXCEPT !.op = "OutOfBand", !.result = "ok",
                                   !.idBefore = rd.id, !.rolesBefore = roles]
    /\ rprev' = Summary(rlast)
    /\ UNCHANGED <<rcfg, rd>>

NextRole ==
    \/ resourceRedshiftRoleCreate /\ UNCHANGED <<grantVars, connVars>>
    \/ resourceRedshiftRoleRead /\ UNCHANGED <<grantVars, connVars>>
    \/ resourceRedshiftRoleUpdate /\ UNCHANGED <<grantVars, connVars>>
    \/ resourceRedshiftRoleDelete /\ UNCHANGED <<grantVars, connVars>>
    \/ OutOfBandDrop /\ UNCHANGED <<grantVars, connVars>>

SpecRole == InitRole /\ [][NextRole]_vars

----------------------------------------------------------------------------
(* The grant resource as a state machine *)

NoCall ==
    NoTx @@ [op |-> "none", result |-> "none", queries |-> <<>>,
             readAnswer |-> "none", rolledBack |-> FALSE,
             idBefore |-> EmptyString, grantsBefore |-> {}, parsed |-> <<>>]

\* identifiers a user may hand to import (ImportStatePassthroughContext)
ImportIds ==
    { KRole \o <<":", "a", ":">> \o KUser \o <<":", "a">>,
      KRole \o <<":", "a", ":">> \o <<"a", "l", "l">> \o <<":", "a">>,
      KRole \o <<":", "a">> }

InitGrant ==
    /\ InitRoleIdle
    /\ InitConnIdle
    /\ \E r \in Names, k \in KindInputs, n \in PrincipalNames :
          d = [id |-> EmptyString, role_name |-> r, grant_to_type |-> k,
               grant_to_name |-> n]
    /\ grants = {}
    /\ last = NoCall
    /\ prev = Summary(NoCall)

\* the framework rejecting the configuration: ValidateFunc of grant_to_type
GrantValidateRejects ==
    /\ d.id = EmptyString
    /\ last.op = "none"
    /\ ~ValidateGrantToType(d.grant_to_type)
    /\ last' = [NoCall EXCEPT !.op = "Validate",
                              !.result = "invalid grant_to_type"]
    /\ prev' = Summary(last)
    /\ UNCHANGED <<d, grants>>

resourceRedshiftRoleGrantCreate ==
    /\ d.id = EmptyString
    /\ ValidateGrantToType(d.grant_to_type)
    /\ \E beginOk \in StartTransactionAnswers :
       \E ans \in (IF beginOk
                   THEN ExecAnswers(GrantStatement(d.role_name,
                            ToUpper(d.grant_to_type), d.grant_to_name), grants)
                   ELSE {"none"}) :
       \E commitOk \in (IF ans = "ok" THEN BOOLEAN ELSE {TRUE}) :
          LET c  == GrantCreateTx(d, beginOk, ans, commitOk)
              g1 == IF c.committed THEN ExecEffect(c.stmts[1], grants)
                    ELSE grants
              d1 == IF c.result = "ok"
                    THEN [d EXCEPT !.id = generateRoleGrantID(d.role_name,
                                     ToUpper(d.grant_to_type), d.grant_to_name)]
                    ELSE d
          IN  \* between the commit and the read-back another session may
              \* revoke the grant
              \E g2 \in (IF c.result = "ok"
                         THEN {g1, g1 \ {StatementGrant(c.stmts[1])}}
                         ELSE {g1}) :
              \E rans \in (IF c.result = "ok" THEN GrantReadAnswers(d1, g2)
                           ELSE {"none"}) :
                 LET r == IF c.result = "ok" THEN GrantRead(d1, rans)
                          ELSE [result |-> c.result, id |-> d1.id,
                                queries |-> <<>>]
                 IN  /\ d' = [d1 EXCEPT !.id = r.id]
                     /\ grants' = g2
                     /\ last' = [op |-> "Create", result |-> r.result,
                                 stmts |-> c.stmts, queries |-> r.queries,
                                 readAnswer |-> rans,
                                 began |-> c.began,
                                 commitCalled |-> c.commitCalled,
                                 committed |-> c.committed,
                                 answer |-> c.answer,
                                 rolledBack |->
                                     deferredRollback(c.began, c.committed),
                                 idBefore |-> d.id, grantsBefore |-> grants,
                                 parsed |-> <<>>]
                     /\ prev' = Summary(last)

resourceRedshiftRoleGrantRead ==
    /\ d.id # EmptyString
    /\ \E rans \in GrantReadAnswers(d, grants) :
          LET r == GrantRead(d, rans)
          IN  /\ d' = [d EXCEPT !.id = r.id]
              /\ last' = [NoCall EXCEPT !.op = "Read", !.result = r.result,
                                        !.queries = r.queries,
                                        !.readAnswer = rans,
                                        !.idBefore = d.id,
                                        !.grantsBefore = grants]
              /\ prev' = Summary(last)
              /\ UNCHANGED grants

resourceRedshiftRoleGrantDelete ==
    /\ d.id # EmptyString
    /\ \E beginOk \in (IF GrantDeleteStatements(d.id) = {} THEN {TRUE}
                       ELSE StartTransactionAnswers) :
       \E ans \in (IF GrantDeleteStatements(d.id) = {} \/ ~beginOk
                   THEN {"none"}
                   ELSE UNION {ExecAnswers(q, grants) :
                                  q \in GrantDeleteStatements(d.id)}) :
       \E commitOk \in (IF ans \in {"ok", "does not exist"} THEN BOOLEAN
                        ELSE {TRUE}) :
          LET c == GrantDeleteTx(d.id, beginOk, ans, commitOk)
          IN  /\ grants' = IF c.committed /\ c.answer = "ok"
                           THEN ExecEffect(c.stmts[1], grants)
                           ELSE grants
              /\ last' = [op |-> "Delete", result |-> c.result,
                          stmts |-> c.stmts, queries |-> <<>>,
                          readAnswer |-> "none",
                          began |-> c.began,
                          commitCalled |-> c.commitCalled,
                          committed |-> c.committed, answer |-> c.answer,
                          rolledBack |->
                              deferredRollback(c.began, c.committed),
                          idBefore |-> d.id, grantsBefore |-> grants,
                          parsed |-> ParseRoleGrantID(d.id)]
              /\ prev' = Summary(last)
              /\ UNCHANGED d

\* terraform import: the identifier is taken as given, the attributes are unset
GrantImport ==
    /\ d.id = EmptyString
    /\ last.op = "none"
    /\ \E id \in ImportIds :
          d' = [id |-> id, role_name |-> EmptyString,
                grant_to_type |-> EmptyString, grant_to_name |-> EmptyString]
    /\ last' = [NoCall EXCEPT !.op = "Import", !.result = "ok"]
    /\ prev' = Summary(last)
    /\ UNCHANGED grants

\* another session revokes a grant (or drops its role or its principal)
OutOfBandRevoke ==
    /\ \E g \in grants : grants' = grants \ {g}
    /\ last' = [NoCall EXCEPT !.op = "OutOfBand", !.result = "ok",
                              !.idBefore = d.id, !.grantsBefore = grants]
    /\ prev' = Summary(last)
    /\ UNCHANGED d

NextGrant ==
    \/ GrantValidateRejects /\ UNCHANGED <<roleVars, connVars>>
    \/ resourceRedshiftRoleGrantCreate /\ UNCHANGED <<roleVars, connVars>>
    \/ resourceRedshiftRoleGrantRead /\ UNCHANGED <<roleVars, connVars>>
    \/ resourceRedshiftRoleGrantDelete /\ UNCHANGED <<roleVars, connVars>>
    \/ GrantImport /\ UNCHANGED <<roleVars, connVars>>
    \/ OutOfBandRevoke /\ UNCHANGED <<roleVars, connVars>>

Spec == InitGrant /\ [][NextGrant]_vars

----------------------------------------------------------------------------
(* The lifecycle calls of both resources *)

\* the configuration declares either the grant or the role
InitLifecycle == InitGrant \/ InitRole

\* the framework calls the handlers of the resource that is declared
NextLifecycle ==
    \/ rcfg = EmptyString /\ NextGrant
    \/ rcfg # EmptyString /\ NextRole

SpecLifecycle == InitLifecycle /\ [][NextLifecycle]_vars

----------------------------------------------------------------------------
(* Properties of the grant resource *)

Kinds == {KUser, KRole, KGroup}

\* the composite identifier role:<role_name>:<grant_to_kind>:<grant_to_name>,
\* all lowercase
CompositeId(r, k, n) ==
    <<"r", "o", "l", "e", ":">> \o ToLower(r) \o <<":">> \o ToLower(k)
        \o <<":">> \o ToLower(n)

\* the resource's identifier is the one Create generates from its attributes
IdIsOfAttributes(id) ==
    /\ d.role_name # EmptyString
    /\ id = CompositeId(d.role_name, d.grant_to_type, d.grant_to_name)

\* C1: for every grant tuple, whatever characters its names contain, Delete's
\* decoding (split on ':', exactly four fields, fields 2..4) of the identifier
\* Create generated yields the lowercased (role_name, kind, grant_to_name).
C1_RoundTrip ==
    (last.op = "Delete" /\ IdIsOfAttributes(last.idBefore))
        => /\ last.parsed # <<>>
           /\ <<last.parsed[1], ToLower(last.parsed[2]), last.parsed[3]>>
                  = <<ToLower(d.role_name), ToLower(d.grant_to_type),
                      ToLower(d.grant_to_name)>>

\* the last call was a Delete that met no transport failure: the transaction
\* began, the engine answered the REVOKE, and the commit (if called) succeeded
DeleteWithoutFault ==
    /\ last.op = "Delete"
    /\ last.began
    /\ last.answer \in {"ok", "does not exist"}
    /\ last.commitCalled => last.committed

SecondDeleteInARow ==
    /\ last.op = "Delete"
    /\ prev.op = "Delete"
    /\ prev.result = "ok"
    /\ prev.idBefore = last.idBefore

\* C3: a successful Delete leaves the engine without the grant, and a second
\* Delete in a row with the same identifier returns success and leaves the
\* engine's grants as they were.
C3_DeleteTwice ==
    /\ (last.op = "Delete" /\ last.result = "ok")
           => StatementGrant(last.stmts[1]) \notin grants
    /\ (SecondDeleteInARow /\ DeleteWithoutFault)
           => (last.result = "ok" /\ grants = last.grantsBefore)

C3_Witness ==
    /\ SecondDeleteInARow
    /\ DeleteWithoutFault
    /\ last.result = "ok"
    /\ last.stmts # <<>>

\* C4: when the REVOKE fails with a "does not exist" error, Delete calls Commit
\* and returns success (the commit's own error if the commit fails), never a
\* 'could not revoke role' error; when it fails in any other way, Delete
\* returns 'could not revoke role' and does not commit.
C4_RevokeFailure ==
    (last.op = "Delete" /\ last.stmts # <<>>)
        => /\ last.answer = "does not exist"
                 => /\ last.commitCalled
                    /\ last.committed <=> last.result = "ok"
                    /\ ~last.committed
                           <=> last.result = "could not commit transaction"
           /\ last.answer = "error"
                 => /\ last.result = "could not revoke role"
                    /\ ~last.commitCalled
                    /\ ~last.committed
                    /\ last.rolledBack

C4_Witness ==
    /\ last.op = "Delete"
    /\ last.answer = "does not exist"
    /\ last.committed
    /\ last.result = "ok"

\* the principal kind the last call worked with: the attribute for Create and
\* Read, the identifier's third field for Delete
CallHasKind ==
    \/ last.op \in {"Validate", "Create", "Read"}
    \/ last.op = "Delete" /\ Len(Split(last.idBefore, Colon)) = 4

CallKind ==
    IF last.op = "Delete" THEN Split(last.idBefore, Colon)[3]
    ELSE d.grant_to_type

\* C5: in every lifecycle call, a kind outside {user, role, group} makes the
\* call return an error before any statement or query is sent to the engine.
C5_KindRejectedBeforeSql ==
    (CallHasKind /\ ToLower(CallKind) \notin Kinds)
        => /\ last.result # "ok"
           /\ last.stmts = <<>>
           /\ last.queries = <<>>

\* C6 as stated: whenever Create returns success the identifier is the
\* composite identifier of the created grant, never empty.
C6_CreateIdAlwaysSet ==
    (last.op = "Create" /\ last.result = "ok")
        => /\ d.id = CompositeId(d.role_name, d.grant_to_type, d.grant_to_name)
           /\ d.id # EmptyString

\* C6 amended: whenever Create returns success, the identifier is the
\* composite identifier of the created grant (all lowercase), unless the
\* read-back query found no row: then Create returns success with the
\* identifier cleared.
C6_CreateId ==
    (last.op = "Create" /\ last.result = "ok")
        => IF last.readAnswer = "no rows"
           THEN d.id = EmptyString
           ELSE /\ d.id = CompositeId(d.role_name, d.grant_to_type,
                                      d.grant_to_name)
                /\ d.id = ToLower(d.id)
                /\ d.id # EmptyString

C6_Witness ==
    /\ last.op = "Create"
    /\ last.result = "ok"
    /\ d.id = CompositeId(d.role_name, d.grant_to_type, d.grant_to_name)
    /\ d.role_name # ToLower(d.role_name)

\* C7: reading a grant whose kind is group, in any letter case, returns
\* success, issues no query and leaves the identifier unchanged.
C7_ReadGroup ==
    (last.op = "Read" /\ ToLower(d.grant_to_type) = KGroup)
        => /\ last.result = "ok"
           /\ last.queries = <<>>
           /\ d.id = last.idBefore

C7_Witness ==
    /\ last.op = "Read"
    /\ d.grant_to_type = <<"G", "r", "o", "u", "p">>
    /\ last.result = "ok"

\* the role and principal names the last Create or Delete worked with
CallNames ==
    IF last.op = "Delete"
    THEN <<Split(last.idBefore, Colon)[2], Split(last.idBefore, Colon)[4]>>
    ELSE <<d.role_name, d.grant_to_name>>

\* C8: the statement Create and Delete send has no principal-kind keyword for
\* kind user, and has the upper-case kind between TO/FROM and the principal
\* name for kind role or group; both follow the same rule.
C8_StatementShape ==
    (last.op \in {"Create", "Delete"} /\ last.stmts # <<>>
        /\ ToLower(CallKind) \in Kinds)
        => LET st   == last.stmts[1]
               verb == IF last.op = "Create" THEN "GRANT" ELSE "REVOKE"
           IN  /\ Len(last.stmts) = 1
               /\ st.verb = verb
               /\ ToLower(CallKind) = KUser
                    => /\ st.fmt = (IF verb = "GRANT"
                                    THEN "GRANT ROLE %s TO %s"
                                    ELSE "REVOKE ROLE %s FROM %s")
                       /\ st.args = <<QuoteIdentifier(CallNames[1]),
                                      QuoteIdentifier(CallNames[2])>>
               /\ ToLower(CallKind) \in {KRole, KGroup}
                    => /\ st.fmt = (IF verb = "GRANT"
                                    THEN "GRANT ROLE %s TO %s %s"
                                    ELSE "REVOKE ROLE %s FROM %s %s")
                       /\ st.args = <<QuoteIdentifier(CallNames[1]),
                                      ToUpper(CallKind),
                                      QuoteIdentifier(CallNames[2])>>

C8_Witness ==
    /\ last.op = "Delete"
    /\ prev.op = "Create"
    /\ last.stmts # <<>>
    /\ ToLower(CallKind) = KGroup
    /\ Len(last.stmts[1].args) = 3

\* C13: a grant Read for kind user or role returns success and clears the
\* identifier when its query finds no row, returns 'error reading role grant'
\* and keeps the identifier when the query fails in another way, and returns
\* success and keeps the identifier when it finds a row; a Read for a kind
\* outside {user, role, group} returns an error and keeps the identifier.
C13_ReadOutcomes ==
    (last.op = "Read")
        => /\ ToLower(d.grant_to_type) \in {KUser, KRole}
                 => /\ Len(last.queries) = 1
                    /\ last.readAnswer \in {"no rows", "error", "row"}
                    /\ last.readAnswer = "no rows"
                           => (last.result = "ok" /\ d.id = EmptyString)
                    /\ last.readAnswer = "error"
                           => /\ last.result = "error reading role grant"
                              /\ d.id = last.idBefore
                    /\ last.readAnswer = "row"
                           => (last.result = "ok" /\ d.id = last.idBefore)
           /\ ToLower(d.grant_to_type) \notin Kinds
                 => /\ last.result = "unsupported grant_to_type"
                    /\ last.queries = <<>>
                    /\ d.id = last.idBefore
                    /\ d.id # EmptyString

\* a Read whose query failed, after a Create that succeeded
C13_Witness ==
    /\ last.op = "Read"
    /\ prev.op = "Create"
    /\ last.readAnswer = "error"
    /\ last.result = "error reading role grant"
    /\ d.id = last.idBefore
    /\ d.id # EmptyString

\* C14: a grant Delete whose identifier does not split into exactly four
\* colon-separated fields returns 'invalid role grant ID format' without
\* beginning a transaction and without sending a statement.
C14_MalformedId ==
    (last.op = "Delete" /\ Len(Split(last.idBefore, Colon)) # 4)
        => /\ last.result = "invalid role grant ID format"
           /\ ~last.began
           /\ last.stmts = <<>>
           /\ ~last.commitCalled
           /\ ~last.rolledBack
           /\ grants = last.grantsBefore

\* a Delete of an identifier with five fields, the one Create generated for
\* a name that has a colon in it
C14_Witness ==
    /\ last.op = "Delete"
    /\ Len(Split(last.idBefore, Colon)) = 5
    /\ IdIsOfAttributes(last.idBefore)
    /\ last.result = "invalid role grant ID format"

\* the last call of the grant resource was one that works in a transaction
GrantTxCall == last.op \in {"Create", "Delete"}

\* the last call of the role resource was one that works in a transaction
RoleTxCall == rlast.op \in {"Create", "Update", "Delete"}

\* a transaction that was begun is ended when the call has returned, by the
\* commit or by the rollback, and a call whose begin failed returns that
\* error and has sent nothing
TxEnded(l) ==
    /\ l.began => (l.committed \/ l.rolledBack)
    /\ ~(l.committed /\ l.rolledBack)
    /\ l.committed => (l.began /\ l.commitCalled)
    /\ l.result = "begin failed" => (~l.began /\ l.stmts = <<>>)
    /\ ~l.began => (l.stmts = <<>> /\ ~l.commitCalled /\ ~l.rolledBack)

\* C12 as stated: every lifecycle call that began a transaction has ended it
\* when it returns, a call whose begin failed returns that error without a
\* statement, and a transaction is committed only when every statement sent
\* inside it succeeded.
C12_CommitOnlyOnFullSuccess ==
    /\ GrantTxCall
          => /\ TxEnded(last)
             /\ last.result = "begin failed" => last.queries = <<>>
             /\ last.committed => last.answer = "ok"
    /\ RoleTxCall
          => /\ TxEnded(rlast)
             /\ rlast.result = "begin failed" => rlast.queries = 0
             /\ rlast.committed
                   => /\ rlast.answer = "ok"
                      /\ rlast.txQuery \in {"none", "row", "true"}

\* C12 amended: every lifecycle call that began a transaction has ended it
\* when it returns, by commit or by rollback, on every exit path; a call whose
\* begin failed returns that error without a statement; and a transaction is
\* committed only when every statement sent inside it succeeded, or, in grant
\* Delete, when the REVOKE failed with a "does not exist" error.
C12_TxEndsOnEveryPath ==
    /\ GrantTxCall
          => /\ TxEnded(last)
             /\ last.result = "begin failed" => last.queries = <<>>
             /\ last.committed
                   => \/ last.answer = "ok"
                      \/ last.op = "Delete" /\ last.answer = "does not exist"
             /\ (last.began /\ last.answer = "error") => last.rolledBack
    /\ RoleTxCall
          => /\ TxEnded(rlast)
             /\ rlast.result = "begin failed" => rlast.queries = 0
             /\ rlast.committed
                   => /\ rlast.answer = "ok"
                      /\ rlast.txQuery \in {"none", "row", "true"}
             /\ (rlast.began /\ rlast.answer = "error") => rlast.rolledBack

\* a role Delete found the role absent and returned success from inside its
\* transaction, which the deferred rollback ended
C12_Witness ==
    /\ rlast.op = "Delete"
    /\ rlast.began
    /\ rlast.txQuery = "false"
    /\ rlast.result = "ok"
    /\ ~rlast.commitCalled
    /\ rlast.rolledBack

----------------------------------------------------------------------------
(* Properties of the role resource *)

\* the engine has the configured role, under its case-folded name
EngineHasConfiguredRole == ToLower(rcfg) \in roles

\* C9: whatever the letter case of the configured name, a successful role
\* Create leaves the lowercase form of the name as the identifier, and the
\* Read that follows it keeps that identifier (the role being still there:
\* a Read that finds no role clears the identifier).
C9_RoleIdLowercase ==
    /\ (rlast.op = "Create" /\ rlast.result = "ok" /\ EngineHasConfiguredRole)
           => rd.id = ToLower(rcfg)
    /\ (rlast.op = "Create" /\ rlast.result = "ok")
           => rd.id \in {ToLower(rcfg), EmptyString}
    /\ (rlast.op = "Read" /\ rlast.result = "ok" /\ rprev.op = "Create"
           /\ rprev.result = "ok" /\ EngineHasConfiguredRole)
           => (rd.id = ToLower(rcfg) /\ rd.id = rlast.idBefore)

C9_Witness ==
    /\ rlast.op = "Read"
    /\ rlast.result = "ok"
    /\ rprev.op = "Create"
    /\ rprev.result = "ok"
    /\ rcfg # ToLower(rcfg)
    /\ rd.id = ToLower(rcfg)

----------------------------------------------------------------------------
(* Properties of the connection registry and the lazy facts *)

\* C2: whatever the number of concurrent first-time callers of IsServerless on
\* one configuration and their interleaving, one probe sequence is executed
\* (the first probe once, the second probe at most once and only after the
\* first failed with insufficient privilege), and every caller returns the
\* same flag value.
C2_OneProbeSequence ==
    \A c \in Clients :
        /\ db.probe1[c] <= 1
        /\ db.probe2[c] <= db.probe1[c]
        /\ db.probe2[c] = 1 => db.probe1Answer[c] = "insufficient privilege"
        /\ db.flags[c] # {} => db.probe1[c] = 1
        /\ Cardinality(db.flags[c]) <= 1
        /\ \A t \in Threads :
              (ret[t].op = "IsServerless" /\ ret[t].client = c)
                  => ret[t].flag \in db.flags[c]

\* two threads were inside IsServerless of one configuration at the same time,
\* one waiting for the mutex while the other probed, and both have returned
C2_Witness ==
    \E t, u \in Threads :
        /\ t # u
        /\ ret[t].op = "IsServerless"
        /\ ret[u].op = "IsServerless"
        /\ ret[t].client = ret[u].client
        /\ ret[t].flag
        /\ ret[u].flag
        /\ ret[u].overlap
        /\ calls = 2
        /\ db.probe2[ret[t].client] = 1

\* Connect of thread t is past its decision to open a new handle
OpeningNew(t) == pc[t] \in {"c_open", "gu_fast", "gu_lock", "gu_check",
                            "gu_query", "c_store"}

\* C10: for every interleaving of Connect calls, a new handle is opened only
\* when the registry holds no handle for the connection string or the held
\* handle failed its liveness probe; otherwise the held handle itself is
\* returned. Concurrent first-time callers (no open, identity lookup or probe
\* having failed) open exactly one handle and all receive it, and the registry
\* holds at most one handle per connection string.
C10_ConnectReuse ==
    /\ \A t \in Threads :
          /\ OpeningNew(t)
                => (call[t].found = NoHandle \/ ~call[t].pingOk)
          /\ (ret[t].op = "Connect" /\ ret[t].opened # NoHandle)
                => (ret[t].found = NoHandle \/ ~ret[t].pingOk)
          /\ (ret[t].op = "Connect" /\ ret[t].err = "none"
                 /\ ret[t].opened = NoHandle)
                => (ret[t].handle = ret[t].found /\ ret[t].found # NoHandle)
          /\ (ret[t].op = "Connect" /\ ret[t].err = "none"
                 /\ ret[t].opened # NoHandle)
                => ret[t].handle = ret[t].opened
          /\ (pc[t] = "c_open" /\ call[t].found # NoHandle)
                => call[t].found = MapGet(dbRegistry, ConnStr[call[t].client])
    /\ \A s \in {ConnStr[c] : c \in Clients} :
          /\ Cardinality({p \in dbRegistry : p[1] = s}) <= 1
          /\ ~db.faulted[s]
                => /\ db.opened[s] <= 1
                   /\ db.returned[s] # {} => db.opened[s] = 1
                   /\ db.returned[s] \subseteq {MapGet(dbRegistry, s)}

\* two threads called Connect with the same connection string at the same
\* time, for the first time, and both returned the one handle opened
C10_Witness ==
    \E t, u \in Threads :
        /\ t # u
        /\ ret[t].op = "Connect"
        /\ ret[u].op = "Connect"
        /\ ret[t].client = ret[u].client
        /\ calls = 2
        /\ ret[t].err = "none"
        /\ ret[u].err = "none"
        /\ ret[t].handle = ret[u].handle
        /\ ret[t].opened # NoHandle
        /\ ret[u].opened = NoHandle
        /\ ret[u].overlap
        /\ db.opened[ConnStr[ret[t].client]] = 1

\* C11 as stated: every Connect that creates a new handle executes exactly one
\* identity query on it, also when the handle replaces a dead one for a
\* client whose identity was already retrieved, and every Connect that reuses
\* the held handle executes none.
C11_OneLookupPerNewHandle ==
    \A t \in Threads :
        (ret[t].op = "Connect")
            => /\ ret[t].opened # NoHandle => ret[t].idq = 1
               /\ ret[t].opened = NoHandle => ret[t].idq = 0

\* C11 amended: a Connect that creates a new handle executes one identity
\* query on it when the identity of the client's configuration has not been
\* retrieved by then, and none when it has (so none for a handle that
\* replaces a dead one of a client whose identity was already retrieved); a
\* Connect that reuses the held handle executes none.
C11_IdentityLookups ==
    /\ \A t \in Threads :
          /\ call[t].idq <= 1
          /\ (ret[t].op = "Connect")
                => /\ ret[t].idq <= 1
                   /\ ret[t].opened = NoHandle => ret[t].idq = 0
                   /\ (ret[t].opened # NoHandle /\ ret[t].idq = 0)
                         => /\ ret[t].err = "none"
                            /\ db.identityOk[ret[t].client] = 1
                   /\ (ret[t].opened # NoHandle /\ ret[t].idq = 1
                          /\ ret[t].err = "none")
                         => db.identityOk[ret[t].client] = 1
    /\ \A c \in Clients : ~db.identityRedone[c]

\* a Connect found the held handle dead, opened a new one for a client whose
\* identity was retrieved before, and stored it without an identity query
C11_Witness ==
    \E t \in Threads :
        /\ ret[t].op = "Connect"
        /\ ret[t].found # NoHandle
        /\ ~ret[t].pingOk
        /\ ret[t].opened # NoHandle
        /\ ret[t].cached
        /\ ret[t].idq = 0
        /\ ret[t].err = "none"
        /\ MapGet(dbRegistry, ConnStr[ret[t].client]) = ret[t].opened

\* the number of the three kinds of lock thread t holds
LocksHeld(t) ==
    (IF dbRegistryLock = t THEN 1 ELSE 0)
        + Cardinality({c \in Clients : serverlessCheckMutex[c] = t})
        + Cardinality({c \in Clients : usernameRetrievalMutex[c] = t})

C16_NoDeadlock ==
    /\ \A t \in Threads : (pc[t] # "idle") ~> (pc[t] = "idle")
    /\ [](\A t \in Threads : pc[t] = "idle" => LocksHeld(t) = 0)

\* a Connect has returned the error of its identity query, taken under both
\* the registry mutex and the username-retrieval mutex, a call of GetUsername
\* on the same configuration that overlapped it has returned too, and every
\* lock is free
C16_Witness ==
    \E t, u \in Threads :
        /\ t # u
        /\ pc[t] = "idle"
        /\ pc[u] = "idle"
        /\ ret[t].op = "Connect"
        /\ ret[t].err = "error retrieving username from Redshift database"
        /\ ret[t].locked
        /\ ret[u].op = "GetUsername"
        /\ ret[u].client = ret[t].client
        /\ ret[u].locked
        /\ ret[t].overlap \/ ret[u].overlap
        /\ dbRegistryLock = 0
        /\ \A c \in Clients :
              serverlessCheckMutex[c] = 0 /\ usernameRetrievalMutex[c] = 0

C18_OneIdentity ==
    /\ \A c \in Clients :
          /\ db.identityOk[c] <= 1
          /\ retrievedUsername[c] \in {"", CurrentUser}
          /\ retrievedUsername[c] # "" => db.identityOk[c] = 1
    /\ \A t \in Threads :
          (ret[t].op = "GetUsername")
              => IF ret[t].err = "none" THEN ret[t].name = CurrentUser
                 ELSE ret[t].name = ""

\* C19: the call of IsServerless that probes computes its result by the
\* table: first probe ok -> (true, nil); first probe insufficient privilege
\* and second probe failed -> (true, nil); first probe insufficient privilege
\* and second probe ok -> (false, nil); first probe failed otherwise ->
\* (false, the error) without a second probe.
C19_ProbeTable ==
    \A t \in Threads :
        (ret[t].op = "IsServerless" /\ ret[t].p1 # "none")
            => /\ ~ret[t].cached
               /\ ret[t].p1 = "ok"
                     => /\ ret[t].flag
                        /\ ret[t].err = "none"
                        /\ ret[t].p2 = "none"
               /\ ret[t].p1 = "insufficient privilege"
                     => /\ ret[t].p2 \in {"ok", "error"}
                        /\ ret[t].err = "none"
                        /\ ret[t].flag <=> ret[t].p2 = "error"
               /\ ret[t].p1 = "error"
                     => /\ ~ret[t].flag
                        /\ ret[t].err = "error"
                        /\ ret[t].p2 = "none"
               /\ isServerless[ret[t].client] = ret[t].flag

\* the first probe failed with insufficient privilege and the second succeeded
C19_Witness ==
    \E t \in Threads :
        /\ ret[t].op = "IsServerless"
        /\ ret[t].p1 = "insufficient privilege"
        /\ ret[t].p2 = "ok"
        /\ ~ret[t].flag
        /\ ret[t].err = "none"

\* C20: after a first IsServerless call whose probe failed with an error
\* other than insufficient privilege, every later call on that configuration
\* issues no probe and returns (false, nil): one first probe in all, no second
\* probe, and the error returned to the probing caller only.
C20_ComputeOnce ==
    \A c \in Clients :
        (db.probe1Answer[c] = "error")
            => /\ db.probe1[c] = 1
               /\ db.probe2[c] = 0
               /\ ~isServerless[c]
               /\ \A t \in Threads :
                     /\ (call[t].op = "IsServerless" /\ call[t].client = c)
                           => pc[t] \in {"s_lock", "s_check"}
                     /\ (ret[t].op = "IsServerless" /\ ret[t].client = c
                            /\ ret[t].p1 = "none")
                           => /\ ~ret[t].flag
                              /\ ret[t].err = "none"
                              /\ ret[t].p2 = "none"
                     /\ (ret[t].op = "IsServerless" /\ ret[t].client = c
                            /\ ret[t].err # "none")
                           => ret[t].p1 = "error"

\* a call got the error of the first probe, and a later call on the same
\* configuration returned (false, nil) without a probe
C20_Witness ==
    \E t, u \in Threads :
        /\ t # u
        /\ ret[t].op = "IsServerless"
        /\ ret[t].err = "error"
        /\ ret[u].op = "IsServerless"
        /\ ret[u].client = ret[t].client
        /\ ret[u].p1 = "none"
        /\ ~ret[u].flag
        /\ ret[u].err = "none"
        /\ db.probe1[ret[t].client] = 1

----------------------------------------------------------------------------
(* Properties of the delete paths that treat absence as success *)

\* C21: every delete path that decides "already absent, nothing to do", the
\* grant Delete whose REVOKE failed with "does not exist" and the role Delete
\* whose existence check found no role, ends its transaction with a commit
\* before it returns success, never by an early return that leaves the
\* transaction to the deferred rollback.
C21_AbsentPathsCommit ==
    /\ (/\ last.op = "Delete"
        /\ last.began
        /\ last.answer = "does not exist"
        /\ last.result = "ok")
          => /\ last.commitCalled
             /\ last.committed
             /\ ~last.rolledBack
    /\ (/\ rlast.op = "Delete"
        /\ rlast.began
        /\ rlast.txQuery = "false"
        /\ rlast.result = "ok")
          => /\ rlast.commitCalled
             /\ rlast.committed
             /\ ~rlast.rolledBack

----------------------------------------------------------------------------
(* Properties of a Connect that fails *)

\* thread t returns from Connect in this step
ConnectReturning(t) ==
    /\ pc[t] # "idle"
    /\ call[t].op = "Connect"
    /\ pc'[t] = "idle"

\* C22: when opening a new handle or its identity lookup fails, Connect
\* returns an error and the registry is unchanged: the handle of a failed call
\* is never in the registry, the entry of the connection string is the one the
\* call found (none, or the handle that failed its probe), so the next Connect
\* opens again; the registry changes only in the assignment of a Connect that
\* returns success.
C22_FailedConnect ==
    /\ [](\A t \in Threads :
             (/\ ret[t].op = "Connect"
              /\ ret[t].err # "none")
                => /\ ret[t].handle = NoHandle
                   /\ \A p \in dbRegistry : p[2] # ret[t].opened
                   /\ ConnectNeedsNew(ret[t].found, ret[t].pingOk))
    /\ [][\A t \in Threads :
             /\ (ConnectReturning(t) /\ ret'[t].err # "none")
                   => /\ dbRegistry' = dbRegistry
                      /\ MapGet(dbRegistry', ConnStr[ret'[t].client])
                            = ret'[t].found
             /\ (ConnectReturning(t) /\ ret'[t].err = "none")
                   => MapGet(dbRegistry', ConnStr[ret'[t].client])
                         = ret'[t].handle]_vars
    /\ [][dbRegistry' # dbRegistry
             => \E t \in Threads :
                   /\ ConnectReturning(t)
                   /\ ret'[t].err = "none"
                   /\ ret'[t].opened # NoHandle
                   /\ dbRegistry' = MapAssign(dbRegistry,
                                              ConnStr[ret'[t].client],
                                              ret'[t].opened)]_vars

\* a Connect found a stored handle that failed its probe, could not replace it
\* and returned an error: the stored handle is still the registry's entry
C22_Witness ==
    \E t \in Threads :
        /\ ret[t].op = "Connect"
        /\ ret[t].err # "none"
        /\ ret[t].found # NoHandle
        /\ ~ret[t].pingOk
        /\ MapGet(dbRegistry, ConnStr[ret[t].client]) = ret[t].found

----------------------------------------------------------------------------
(* Properties of the Read handlers *)

\* C23: grant Read and role Read never mutate the engine: on every path they
\* send no DDL or DML statement and begin no transaction; of the caller-side
\* state they change only the identifier, cleared when the query found no row
\* and otherwise kept, and, in role Read, the recorded name.
C23_ReadsAreReadOnly ==
    /\ [](last.op = "Read"
             => /\ last.stmts = <<>>
                /\ ~last.began /\ ~last.commitCalled /\ ~last.committed
                /\ grants = last.grantsBefore
                /\ \/ d.id = last.idBefore
                   \/ d.id = EmptyString /\ last.readAnswer = "no rows")
    /\ [](rlast.op = "Read"
             => /\ rlast.stmts = <<>>
                /\ ~rlast.began /\ ~rlast.commitCalled /\ ~rlast.committed
                /\ roles = rlast.rolesBefore
                /\ \/ rd.id = rlast.idBefore
                   \/ rd.id = EmptyString /\ rlast.readAnswer = "no rows")
    /\ [][last'.op = "Read"
             => /\ grants' = grants
                /\ d' = [d EXCEPT !.id = d'.id]]_vars
    /\ [][rlast'.op = "Read"
             => /\ roles' = roles
                /\ rcfg' = rcfg]_vars

\* a grant Read found the grant: the engine still holds it and the identifier
\* is the one from before the call
C23_Witness ==
    /\ last.op = "Read"
    /\ last.readAnswer = "row"
    /\ last.queries # <<>>
    /\ d.id = last.idBefore
    /\ grants # {}
    /\ grants = last.grantsBefore

----------------------------------------------------------------------------
(* Properties of role Update *)

\* C24: role Update, called with the state's name and the configured name:
\* when the two are equal no transaction is begun and no rename is sent; when
\* they differ and the rename and the commit succeed, the identifier is the
\* lowercase new name before the read-back, which therefore asks for the new
\* name and finds it; when the rename or the commit fails, Update returns that
\* error and the identifier and the engine are as before the call.
C24_UpdateFrame ==
    [][rlast'.op = "Update"
          => /\ rd.name = rcfg'
                   => /\ ~rlast'.began
                      /\ rlast'.stmts = <<>>
                      /\ roles' = roles
             /\ (/\ rd.name # rcfg'
                 /\ rlast'.answer = "ok"
                 /\ rlast'.committed)
                   => /\ rlast'.stmts = <<RenameStatement(rd.name, rcfg')>>
                      /\ rlast'.queries = 1
                      /\ rlast'.readAnswer \in {"row", "error"}
                      /\ rd'.id = ToLower(rcfg')
             /\ (/\ rd.name # rcfg'
                 /\ rlast'.began
                 /\ \/ rlast'.answer # "ok"
                    \/ ~rlast'.committed)
                   => /\ rlast'.result \in {"error renaming role",
                                            "could not commit transaction"}
                      /\ rlast'.queries = 0
                      /\ rd'.id = rd.id
                      /\ roles' = roles]_vars

\* an Update renamed the role and committed: the identifier is the lowercase
\* new name, which differs from the identifier before the call
C24_Witness ==
    /\ rlast.op = "Update"
    /\ rlast.answer = "ok"
    /\ rlast.committed
    /\ rd.id = ToLower(rcfg)
    /\ rd.id # rlast.idBefore
    /\ rcfg # ToLower(rcfg)

----------------------------------------------------------------------------
(* Properties of role Delete *)

\* C25: role Delete sends DROP ROLE only when the existence check inside the
\* same transaction found the role; when the check finds no role it returns
\* success without a DDL statement and the engine is as before; so a Delete
\* that directly follows a successful Delete of the same identifier finds no
\* role, sends nothing and, unless the begin or the check itself fails,
\* succeeds too.
C25_DropOnlyWhenFound ==
    rlast.op = "Delete"
       => /\ rlast.stmts # <<>>
                => /\ rlast.began
                   /\ rlast.queries = 1
                   /\ rlast.txQuery = "true"
                   /\ rlast.idBefore \in rlast.rolesBefore
                   /\ rlast.stmts
                         = <<RoleStatement("DROP ROLE", rlast.idBefore)>>
          /\ rlast.txQuery = "false"
                => /\ rlast.result = "ok"
                   /\ rlast.stmts = <<>>
                   /\ roles = rlast.rolesBefore
                   /\ rlast.idBefore \notin rlast.rolesBefore
          /\ (/\ rprev.op = "Delete"
              /\ rprev.result = "ok"
              /\ rprev.idBefore = rlast.idBefore)
                => /\ rlast.txQuery # "true"
                   /\ rlast.stmts = <<>>
                   /\ (rlast.began /\ rlast.txQuery # "error")
                         => rlast.result = "ok"

\* two role Deletes in a row that both returned success, the second one after
\* an existence check that found no role
C25_Witness ==
    /\ rprev.op = "Delete"
    /\ rprev.result = "ok"
    /\ rlast.op = "Delete"
    /\ rlast.result = "ok"
    /\ rlast.idBefore = rprev.idBefore
    /\ rlast.txQuery = "false"
    /\ rlast.stmts = <<>>

----------------------------------------------------------------------------
(* Properties of role Create *)

\* C26: role Create assigns the identifier only after the re-query has
\* confirmed the role and the creating transaction has committed: whenever
\* Create returns an error of the create statement, of the verification or of
\* the commit, the identifier is still unset and the call has left no role of
\* the configured name in the engine.
C26_IdOnlyAfterCommit ==
    (/\ rlast.op = "Create"
     /\ rlast.result \in {"could not create redshift role",
                          "could not verify role creation",
                          "could not commit transaction"})
       => /\ rd.id = EmptyString
          /\ ~rlast.committed
          /\ roles = rlast.rolesBefore
          /\ ToLower(rcfg) \notin (roles \ rlast.rolesBefore)

====
